---- MODULE Spec2Model ----
(***************************************************************************)
(* Conversation state machine of the Leyla Cuisine Telegram bot            *)
(* (src/bot.py, src/tools_handler.py).                                     *)
(*                                                                         *)
(* State: the three per-user dictionaries of bot.py (user_histories,       *)
(* active_agent_per_user, user_states), the next-step continuations that   *)
(* bot.register_next_step_handler stores per chat, and one record per      *)
(* handler invocation (a thread: handle_message starts one per message,    *)
(* the bot's worker pool runs one per popped continuation).                *)
(*                                                                         *)
(* Chats are private chats: message.chat.id = message.from_user.id.        *)
(* Every call of Runner.run, send_quotation_email and the Google services  *)
(* is a suspension point whose outcome is chosen nondeterministically.     *)
(***************************************************************************)
EXTENDS Integers, Sequences, FiniteSets, TLC

VARIABLES user_histories, active_agent_per_user, user_states, next_step,
          threads, google_setup,
          order,      \* the Order given to calculate_quotation
          quotation,  \* what calculate_quotation returned or raised
          calls,      \* the calls of calculate_quotation made so far
          now,            \* datetime.now(mt_tz)
          calendar,       \* the events of the Google calendar, by event id
          calendar_call,  \* the last call of the calendar handler
          oauth_states,           \* state token -> user_id
          oauth_callback_queue,   \* the (user_id, code) pairs not yet taken
          callbacks,      \* the requests of /oauth2callback being served
          monitor,        \* the thread of monitor_oauth_queue
          oauth_log,      \* the pairs put on the queue and those processed
          contacts,       \* the rows of the contacts sheet below the header
          contact_call    \* the last call of a contact tool

\* The state of the services behind the tools and of the OAuth server.
services == <<now, calendar, calendar_call, oauth_callback_queue, callbacks,
              monitor, oauth_log, contacts, contact_call>>

vars == <<user_histories, active_agent_per_user, user_states, next_step,
          threads, google_setup, order, quotation, calls, services, oauth_states>>

\* ------------------------------------------------------------------ bounds
\* Number of messages the gateway delivers in one behaviour.
MaxMsgs == 2

\* ------------------------------------------------------------- constants
MAX_HISTORY == 4

Users == {"A", "B"}

triage_agent == "Triage agent"
parser_agent == "order_parser"
menu_agent == "Menu agent"
contacts_agent == "Contacts agent"
calendar_agent == "Calendar agent"

Agents == {triage_agent, parser_agent, menu_agent, contacts_agent, calendar_agent}

\* Message texts, by the properties the code tests:
\*   "y"              text.strip().lower().startswith("y")
\*   "n"              a negative / free text without address keyword
\*   "n wrong address" a negative text containing "address" or "location"
\*   "/Greetings"     starts with an allow-listed prefix but is not the
\*                    /Greet command, so it reaches handle_message
Texts == {"y", "n", "n wrong address", "/Greetings"}

StartsWithY(text) == text = "y"

\* "address" in text.lower() or "location" in text.lower()
MentionsAddressNever(text) == FALSE

MentionsAddress(text) == text = "n wrong address"

IsMetaCommand(text) == text = "/Greetings"

\* Fields of the pydantic model Order; process_message reads
\* result.email, result.name, result.address and result.date.
OrderFields == {"email", "items", "discount", "delivery", "tax_rate"}

OrderFieldsRead == {"email", "name", "address", "date"}

\* save_approved_quotation(pdf_path) takes one positional parameter;
\* confirmation_handler calls it with (pdf_path, customer_name).
SaveApprovedQuotationParams == 1

SaveApprovedQuotationArgs == 2

\* --------------------------------------------------------------- helpers
LastN(s, n) == IF Len(s) <= n THEN s ELSE SubSeq(s, Len(s) - n + 1, Len(s))

\* Python dict assignment d[k] = v and deletion del d[k].
Put(d, k, v) == [x \in (DOMAIN d) \cup {k} |-> IF x = k THEN v ELSE d[x]]

Del(d, k) == [x \in (DOMAIN d) \ {k} |-> d[x]]

EmptyDict == [x \in {} |-> 0]

UserEntry(m) == [role |-> "user", turn |-> m]

AssistantEntry(m) == [role |-> "assistant", turn |-> m]

\* The key under which a handler reads and writes the per-user dictionaries
\* (user_id = message.from_user.id).
UserIdShared(t) == CHOOSE u \in Users : TRUE

UserIdOf(t) == t.user

NewThread(u, m, text, handler) ==
    [user |-> u, msg |-> m, text |-> text, handler |-> handler, pc |-> handler,
     arg |-> u,
     conv |-> <<>>, agent |-> "none", last |-> "none", out |-> "none",
     res |-> "none",
     k |-> 0, quoted |-> FALSE, reg |-> "none"]

\* Number of messages delivered so far (every thread records its message).
Delivered == IF threads = <<>> THEN 0 ELSE threads[Len(threads)].msg

\* Agents that Runner.run can end on: triage_agent has the four handoffs,
\* the other agents of bot.py are defined without handoffs.
LastAgents(start) == IF start = triage_agent THEN Agents ELSE {start}

\* final_output: parser_agent has output_type Order (whose items resolve
\* against the menu or not); every other agent answers with text.
Outputs(agent) ==
    IF agent = parser_agent THEN {"order", "order_unknown_item"} ELSE {"text"}

\* response.to_input_list(): the input plus the items the run produced
\* (one message; a handoff adds its call and its output).
NewItemCount(start, last) == IF start = last THEN 1 ELSE 3

NewItems(m, n) == [j \in 1..n |-> AssistantEntry(m)]

\* A continuation registered with bot.register_next_step_handler.
Continuation(handler, uid) == [handler |-> handler, user_id |-> uid]

\* telebot consumes a message for the chat's next-step handlers when some
\* are registered; only otherwise it reaches the message handlers.
ConsumedNever(u) == FALSE

ConsumedByNextStep(u) == next_step[u] # <<>>

\* ------------------------------------------------------- message gateway
\* handle_message: a message no next-step handler consumed starts a thread
\* running process_message.
handle_message(u, text) ==
    /\ Delivered < MaxMsgs
    /\ UNCHANGED <<order, quotation, calls, services, oauth_states>>
    /\ ~ConsumedByNextStep(u)
    /\ threads' = Append(threads, NewThread(u, Delivered + 1, text, "process_message"))
    /\ UNCHANGED <<user_histories, active_agent_per_user, user_states,
                   next_step, google_setup>>

\* The OAuth flow seen from the conversation (callback, queue and monitor
\* in one step): the token files are written and check_google_setup()
\* turns true.
oauth_callback ==
    /\ ~google_setup
    /\ UNCHANGED <<order, quotation, calls, services, oauth_states>>
    /\ google_setup' = TRUE
    /\ UNCHANGED <<user_histories, active_agent_per_user, user_states,
                   next_step, threads>>

\* ------------------------------------------------------ process_message
\* secrets.token_urlsafe(32), line 964: a token no other call returns; the
\* number of the message stands for it.
token_urlsafe(t) == t.msg

\* Lines 956-1000: authentication gate, session creation, append of the
\* user's message (in place, to the stored list), local window of the last
\* MAX_HISTORY entries, read of the active agent.
\* Line 993: the active agent of a session that is created.
FreshAgentParser == parser_agent

FreshAgent == triage_agent

process_message_begin(i) ==
    /\ i \in DOMAIN threads
    /\ UNCHANGED <<order, quotation, calls, services>>
    /\ threads[i].pc = "process_message"
    /\ LET t == threads[i]
           u == UserIdOf(t)
       IN IF ~IsMetaCommand(t.text) /\ ~google_setup
          THEN /\ threads' = [threads EXCEPT ![i].pc = "done", ![i].res = "gated",
                                             ![i].text = "-"]
               /\ oauth_states' = Put(oauth_states, token_urlsafe(t), u)
               /\ UNCHANGED <<user_histories, active_agent_per_user>>
          ELSE LET known == u \in DOMAIN user_histories
                   h0 == IF known THEN user_histories[u] ELSE <<>>
                   a0 == IF known THEN active_agent_per_user
                                  ELSE Put(active_agent_per_user, u, FreshAgent)
                   h1 == Append(h0, UserEntry(t.msg))
               IN /\ user_histories' = Put(user_histories, u, h1)
                  /\ active_agent_per_user' = a0
                  /\ UNCHANGED oauth_states
                  /\ threads' = [threads EXCEPT
                        ![i].pc = "Runner.run", ![i].text = "-",
                        ![i].conv = LastN(h1, MAX_HISTORY),
                        ![i].agent = IF u \in DOMAIN a0 THEN a0[u] ELSE triage_agent]
    /\ UNCHANGED <<user_states, next_step, google_setup>>

\* Lines 1110-1111: if user_id in active_agent_per_user: reset to triage.
ResetIn(d, u) == IF u \in DOMAIN d THEN Put(d, u, triage_agent) ELSE d

\* Lines 1106-1111: the except branch of process_message.
ResetAfterError(u) == ResetIn(active_agent_per_user, u)

\* calculate_quotation (tools_handler.py lines 90-97) raises ValueError
\* when an item of the order matches no menu entry.
ResolvesAnything(out) == TRUE

Resolves(out) == out = "order"

\* Line 1095: the agents that stay active after a text answer.
KeepsActiveNever(last) == FALSE

KeepsActive(last) == last # triage_agent /\ last # parser_agent

\* Runner.run raises: nothing of lines 1021-1101 runs.
process_message_run_raises(i) ==
    /\ i \in DOMAIN threads
    /\ UNCHANGED <<order, quotation, calls, services, oauth_states>>
    /\ threads[i].pc = "Runner.run"
    /\ LET u == UserIdOf(threads[i])
       IN /\ active_agent_per_user' = ResetAfterError(u)
          /\ threads' = [threads EXCEPT ![i].pc = "done", ![i].res = "run_error",
                                        ![i].conv = <<>>, ![i].agent = triage_agent]
    /\ UNCHANGED <<user_histories, user_states, next_step, google_setup>>

\* Lines 1021-1111 when Runner.run returns: last is response.last_agent and
\* out the kind of response.final_output.
process_message_run_returns(i, last, out) ==
    /\ i \in DOMAIN threads
    /\ UNCHANGED <<order, quotation, calls, services, oauth_states>>
    /\ threads[i].pc = "Runner.run"
    /\ last \in LastAgents(threads[i].agent)
    /\ out \in Outputs(last)
    /\ LET t == threads[i]
           u == UserIdOf(t)
           n == NewItemCount(t.agent, last)
           stored == Put(active_agent_per_user, u, last)
           isOrder == last = parser_agent /\ out \in {"order", "order_unknown_item"}
           \* calculate_quotation raises ValueError on an unknown item
           priced == isOrder /\ Resolves(out)
           \* quotation["name"] = result.name raises AttributeError
           \* unless Order declares every field that is read
           fieldsOk == OrderFieldsRead \subseteq OrderFields
           started == priced /\ fieldsOk
           \* the exception reaches the except branch of lines 1106-1111
           raised == isOrder /\ ~started
           keep == ~isOrder /\ KeepsActive(last)
           after == IF raised THEN ResetIn(stored, u)
                    ELSE IF keep THEN stored
                    ELSE Put(stored, u, triage_agent)
           left == after[u]
       IN /\ user_histories' = Put(user_histories, u, t.conv \o NewItems(t.msg, n))
          /\ active_agent_per_user' = after
          /\ next_step' = IF started
                          THEN [next_step EXCEPT ![u] =
                                  Append(@, Continuation("confirmation_handler", u))]
                          ELSE next_step
          /\ threads' = [threads EXCEPT
                ![i].pc = "done", ![i].conv = <<>>, ![i].agent = left,
                ![i].last = last, ![i].out = out, ![i].k = n, ![i].quoted = priced,
                ![i].reg = IF started THEN "confirmation_handler" ELSE "none",
                ![i].res = IF ~isOrder THEN "text"
                           ELSE IF ~priced THEN "item_not_found"
                           ELSE IF ~fieldsOk THEN "attribute_error"
                           ELSE "quotation"]
    /\ UNCHANGED <<user_states, google_setup>>

\* ------------------------------------------------ confirmation workflow
\* The message is consumed by the chat's next-step handlers: telebot pops
\* all of them and runs each on the message in a worker thread.
next_step_dispatch(u, text) ==
    /\ Delivered < MaxMsgs
    /\ UNCHANGED <<order, quotation, calls, services, oauth_states>>
    /\ ConsumedByNextStep(u)
    /\ LET hs == next_step[u]
           m == Delivered + 1
       IN threads' = threads \o
              [j \in 1..Len(hs) |->
                  [NewThread(u, m, text, hs[j].handler) EXCEPT !.arg = hs[j].user_id]]
    /\ next_step' = [next_step EXCEPT ![u] = <<>>]
    /\ UNCHANGED <<user_histories, active_agent_per_user, user_states, google_setup>>

RegisterNothing(u, handler, uid) == next_step

Register(u, handler, uid) ==
    [next_step EXCEPT ![u] = Append(@, Continuation(handler, uid))]

\* calendar_agent_response before the calendar agent has answered.
None == -1

\* The state handle_calendar_after_approval stores (lines 419-427).
NewDraft(address) ==
    [calendar_agent_response |-> None, address |-> address,
     is_address_update |-> FALSE, available_addresses |-> <<>>]

\* confirmation_handler (lines 343-394); send_status is the result of
\* send_quotation_email.
confirmation_handler(i, send_status) ==
    /\ i \in DOMAIN threads
    /\ UNCHANGED <<order, quotation, calls, services, oauth_states>>
    /\ threads[i].pc = "confirmation_handler"
    /\ LET t == threads[i]
           u == UserIdOf(t)
           yes == StartsWithY(t.text)
           sent == yes /\ send_status
           \* save_approved_quotation(pdf_path, customer_name): TypeError
           \* unless the call fits the signature
           saved == SaveApprovedQuotationArgs = SaveApprovedQuotationParams
           advance == sent /\ saved
       IN /\ next_step' = IF advance
                          THEN Register(u, "handle_calendar_after_approval", u)
                          ELSE next_step
          /\ threads' = [threads EXCEPT
                ![i].pc = "done", ![i].text = "-",
                ![i].out = IF sent THEN "sent" ELSE "none",
                ![i].reg = IF advance THEN "handle_calendar_after_approval" ELSE "none",
                ![i].res = IF ~yes THEN "canceled"
                           ELSE IF ~send_status THEN "send_failed"
                           ELSE IF ~saved THEN "type_error"
                           ELSE "advance"]
    /\ UNCHANGED <<user_histories, active_agent_per_user, user_states, google_setup>>

\* handle_calendar_after_approval up to the call of the calendar agent
\* (lines 400-441).
handle_calendar_after_approval(i) ==
    /\ i \in DOMAIN threads
    /\ UNCHANGED <<order, quotation, calls, services, oauth_states>>
    /\ threads[i].pc = "handle_calendar_after_approval"
    /\ LET t == threads[i]
           u == UserIdOf(t)
       IN IF StartsWithY(t.text)
          THEN /\ user_states' = Put(user_states, u, NewDraft("order"))
               /\ threads' = [threads EXCEPT ![i].pc = "after_approval:Runner.run",
                                             ![i].text = "-"]
          ELSE /\ user_states' = user_states
               /\ threads' = [threads EXCEPT ![i].pc = "done", ![i].text = "-",
                                             ![i].res = "declined"]
    /\ UNCHANGED <<user_histories, active_agent_per_user, next_step, google_setup>>

\* The event confirmation is the continuation registered after a proposal.
AfterProposalSkipsConfirmation == "handle_calendar_modification"

AfterProposal == "handle_calendar_confirmation"

\* handle_calendar_after_approval from the return of the calendar agent
\* (lines 441-460); ok is false when Runner.run raises.
after_approval_run(i, ok) ==
    /\ i \in DOMAIN threads
    /\ UNCHANGED <<order, quotation, calls, services, oauth_states>>
    /\ threads[i].pc = "after_approval:Runner.run"
    /\ LET t == threads[i]
           u == UserIdOf(t)
           stored == ok /\ u \in DOMAIN user_states
       IN /\ user_states' = IF stored
                            THEN [user_states EXCEPT ![u].calendar_agent_response = t.msg]
                            ELSE user_states
          /\ next_step' = IF stored THEN Register(u, AfterProposal, u) ELSE next_step
          /\ threads' = [threads EXCEPT
                ![i].pc = "done",
                ![i].reg = IF stored THEN AfterProposal ELSE "none",
                ![i].res = IF stored THEN "advance" ELSE "error"]
    /\ UNCHANGED <<user_histories, active_agent_per_user, google_setup>>

\* handle_calendar_confirmation (lines 462-530); outcome is what the
\* calendar agent does with the request to create the event.
handle_calendar_confirmation(i, outcome) ==
    /\ i \in DOMAIN threads
    /\ UNCHANGED <<order, quotation, calls, services, oauth_states>>
    /\ threads[i].pc = "handle_calendar_confirmation"
    /\ outcome \in {"created", "failed", "raised"}
    /\ LET t == threads[i]
           u == UserIdOf(t)
           user_id == t.arg
           yes == StartsWithY(t.text)
           has == user_id \in DOMAIN user_states
           next == IF yes THEN "none"
                   ELSE IF MentionsAddress(t.text) THEN "handle_calendar_response"
                   ELSE "handle_calendar_modification"
       IN /\ user_states' = Del(user_states, user_id)
          /\ next_step' = IF next = "none" THEN next_step ELSE Register(u, next, user_id)
          /\ threads' = [threads EXCEPT
                ![i].pc = "done", ![i].text = "-", ![i].reg = next,
                ![i].out = IF yes /\ has THEN outcome ELSE "none",
                ![i].res = IF ~yes THEN "advance"
                           ELSE IF ~has \/ outcome = "raised" THEN "error"
                           ELSE IF outcome = "created" THEN "scheduled"
                           ELSE "schedule_failed"]
    /\ UNCHANGED <<user_histories, active_agent_per_user, google_setup>>

\* handle_calendar_modification (lines 532-567).
handle_calendar_modification(i) ==
    /\ i \in DOMAIN threads
    /\ UNCHANGED <<order, quotation, calls, services, oauth_states>>
    /\ threads[i].pc = "handle_calendar_modification"
    /\ LET t == threads[i]
           u == UserIdOf(t)
           user_id == t.arg
           yes == StartsWithY(t.text)
           has == user_id \in DOMAIN user_states
           advance == yes /\ has
       IN /\ user_states' = IF advance THEN user_states ELSE Del(user_states, user_id)
          /\ next_step' = IF advance
                          THEN Register(u, "handle_specific_modification", user_id)
                          ELSE next_step
          /\ threads' = [threads EXCEPT
                ![i].pc = "done", ![i].text = "-",
                ![i].reg = IF advance THEN "handle_specific_modification" ELSE "none",
                ![i].res = IF ~yes THEN "canceled"
                           ELSE IF ~has THEN "error" ELSE "advance"]
    /\ UNCHANGED <<user_histories, active_agent_per_user, google_setup>>

\* handle_specific_modification (lines 569-613); ok is false when
\* Runner.run raises.
handle_specific_modification(i, ok) ==
    /\ i \in DOMAIN threads
    /\ UNCHANGED <<order, quotation, calls, services, oauth_states>>
    /\ threads[i].pc = "handle_specific_modification"
    /\ LET t == threads[i]
           u == UserIdOf(t)
           user_id == t.arg
           has == user_id \in DOMAIN user_states
           advance == has /\ ok
       IN /\ user_states' = IF advance
                            THEN [user_states EXCEPT ![user_id].calendar_agent_response = t.msg]
                            ELSE Del(user_states, user_id)
          /\ next_step' = IF advance
                          THEN Register(u, "handle_calendar_confirmation", user_id)
                          ELSE next_step
          /\ threads' = [threads EXCEPT
                ![i].pc = "done", ![i].text = "-",
                ![i].reg = IF advance THEN "handle_calendar_confirmation" ELSE "none",
                ![i].res = IF advance THEN "advance" ELSE "error"]
    /\ UNCHANGED <<user_histories, active_agent_per_user, google_setup>>

\* handle_calendar_response (lines 615-665); ok is false when Runner.run
\* raises.  available_addresses is never filled, so the address is the
\* text of the message.  No continuation is registered on any path.
handle_calendar_response(i, ok) ==
    /\ i \in DOMAIN threads
    /\ UNCHANGED <<order, quotation, calls, services, oauth_states>>
    /\ threads[i].pc = "handle_calendar_response"
    /\ LET t == threads[i]
           user_id == t.arg
           has == user_id \in DOMAIN user_states
           update == has /\ user_states[user_id].is_address_update
       IN /\ user_states' = IF update
                            THEN [user_states EXCEPT ![user_id].address = "message",
                                                     ![user_id].is_address_update = FALSE]
                            ELSE user_states
          /\ threads' = [threads EXCEPT
                ![i].pc = "done", ![i].text = "-",
                ![i].res = IF ~has THEN "error"
                           ELSE IF ~update THEN "no_update"
                           ELSE IF ok THEN "reproposed" ELSE "error"]
    /\ UNCHANGED <<user_histories, active_agent_per_user, next_step, google_setup>>

\* ------------------------------------------------- calculate_quotation
\* tools_handler.py lines 81-129.  Amounts are exact integers in thousandths
\* of a cent, tax rates in tenths of a percent, so that every product and
\* quotient of the function is exact; the rounding of Python floats is not
\* represented.
MaxItems == 2

MaxQuantity == 2

\* 8.1 percent, in tenths of a percent (line 116).
DefaultTaxRate == 81

\* 15 dollars, in thousandths of a cent (line 117).
DeliveryFee == 1500000

\* A snapshot of the menu sheet as load_menu returns it: item name to
\* price and category.
load_menu ==
    ("Margherita Pizza" :> [Price |-> 1200000, Category |-> "main dish"])
    @@ ("Hummus" :> [Price |-> 650000, Category |-> "appetizers"])
    @@ ("Hummus Plate" :> [Price |-> 900000, Category |-> "salad"])

\* Names an order may carry: the three keys, a misspelling of a key, a
\* name close to two keys, a name whose ratio to a key is exactly the
\* cutoff, and a name that is close to no key.
ItemNames == {"Margherita Pizza", "Hummus", "Hummus Plate", "Margarita Pizza",
              "Hummus Plat", "Humx", "Sushi"}

\* The characters of each name, as code points.
Chars ==
    ("Margherita Pizza" :> <<77, 97, 114, 103, 104, 101, 114, 105, 116, 97, 32, 80, 105, 122, 122, 97>>)
    @@ ("Hummus" :> <<72, 117, 109, 109, 117, 115>>)
    @@ ("Hummus Plate" :> <<72, 117, 109, 109, 117, 115, 32, 80, 108, 97, 116, 101>>)
    @@ ("Margarita Pizza" :> <<77, 97, 114, 103, 97, 114, 105, 116, 97, 32, 80, 105, 122, 122, 97>>)
    @@ ("Hummus Plat" :> <<72, 117, 109, 109, 117, 115, 32, 80, 108, 97, 116>>)
    @@ ("Humx" :> <<72, 117, 109, 120>>)
    @@ ("Sushi" :> <<83, 117, 115, 104, 105>>)

RECURSIVE RunLength(_, _, _, _, _, _)
\* Length of the common run of a and b that starts at a[i], b[j] and stays
\* within a[..ahi], b[..bhi].
RunLength(a, b, i, j, ahi, bhi) ==
    IF i > ahi \/ j > bhi THEN 0
    ELSE IF a[i] # b[j] THEN 0
    ELSE 1 + RunLength(a, b, i + 1, j + 1, ahi, bhi)

\* The order in which find_longest_match prefers blocks <<size, i, j>>:
\* the longer one; of equal sizes the one that starts earlier in a; of
\* those the one that starts earlier in b.
Preferred(r, q) ==
    \/ r[1] > q[1]
    \/ r[1] = q[1] /\ r[2] < q[2]
    \/ r[1] = q[1] /\ r[2] = q[2] /\ r[3] <= q[3]

Longest(runs) == CHOOSE r \in runs : \A q \in runs : Preferred(r, q)

\* SequenceMatcher.find_longest_match without junk: the preferred matching
\* block <<size, i, j>> of a[alo..ahi] and b[blo..bhi].
find_longest_match(a, b, alo, ahi, blo, bhi) ==
    CHOOSE m \in {Longest(runs) :
                    runs \in {{<<RunLength(a, b, i, j, ahi, bhi), i, j>> :
                                 i \in alo..ahi, j \in blo..bhi}}} : TRUE

RECURSIVE MatchingSize(_, _, _, _, _, _)
\* The size of the block m = <<size, i, j>> and of the blocks matched to
\* its left and to its right.
AroundBlock(a, b, alo, ahi, blo, bhi, m) ==
    IF m[1] = 0 THEN 0
    ELSE m[1]
         + MatchingSize(a, b, alo, m[2] - 1, blo, m[3] - 1)
         + MatchingSize(a, b, m[2] + m[1], ahi, m[3] + m[1], bhi)

\* SequenceMatcher.get_matching_blocks: the total size of the blocks found
\* by taking the longest match and recurring on both sides of it.
MatchingSize(a, b, alo, ahi, blo, bhi) ==
    IF alo > ahi \/ blo > bhi THEN 0
    ELSE CHOOSE n \in {AroundBlock(a, b, alo, ahi, blo, bhi, m) :
                         m \in {find_longest_match(a, b, alo, ahi, blo, bhi)}} : TRUE

\* SequenceMatcher(None, key, name).ratio() is 2.0 * M / T; the table holds
\* M and T for every key and name.
Similarity ==
    [key \in DOMAIN load_menu, name \in ItemNames |->
        CHOOSE r \in {[M |-> MatchingSize(a, b, 1, Len(a), 1, Len(b)),
                       T |-> Len(a) + Len(b)] :
                        a \in {Chars[key]}, b \in {Chars[name]}} : TRUE]

\* cutoff=0.6, in tenths (line 94).
Cutoff == 6

\* s.ratio() >= cutoff.
ReachesCutoff(key, name) ==
    2 * Similarity[key, name].M * 10 >= Cutoff * Similarity[key, name].T

\* ratio of key1 to name > ratio of key2 to name.
ScoresHigher(key1, key2, name) ==
    Similarity[key1, name].M * Similarity[key2, name].T
       > Similarity[key2, name].M * Similarity[key1, name].T

RECURSIVE StrLess(_, _)
\* Python's order of two strings, on their code points.
StrLess(a, b) ==
    IF b = <<>> THEN FALSE
    ELSE IF a = <<>> THEN TRUE
    ELSE IF a[1] # b[1] THEN a[1] < b[1]
    ELSE StrLess(Tail(a), Tail(b))

\* The candidate with the lowest (score, key) instead of the highest.
Worst(cand, name) ==
    CHOOSE k \in cand : \A x \in cand \ {k} :
       \/ ScoresHigher(x, k, name)
       \/ ~ScoresHigher(k, x, name) /\ StrLess(Chars[k], Chars[x])

\* _nlargest(1, result) on the (score, key) pairs: the highest score, and
\* of equal scores the greater key.
Best(cand, name) ==
    CHOOSE k \in cand : \A x \in cand \ {k} :
       \/ ScoresHigher(k, x, name)
       \/ ~ScoresHigher(x, k, name) /\ StrLess(Chars[x], Chars[k])

\* difflib.get_close_matches(name, menu.keys(), n=1, cutoff=0.6).
get_close_matches(name) ==
    LET cand == {key \in DOMAIN load_menu : ReachesCutoff(key, name)}
    IN IF cand = {} THEN <<>> ELSE <<Best(cand, name)>>

\* Lines 92-97: the menu keys the name resolves to (one or none).
Lookup(name) ==
    IF name \in DOMAIN load_menu THEN <<name>> ELSE get_close_matches(name)

OrderItem == [name : ItemNames, quantity : 1..MaxQuantity]

\* Optional[Union[str, float]]: None, a string ending in "%", or a number.
Discounts ==
    {[kind |-> "none", value |-> 0],
     [kind |-> "percent", value |-> 10],
     [kind |-> "flat", value |-> 500000],
     [kind |-> "flat", value |-> 2000000],
     [kind |-> "flat", value |-> 0]}

\* Optional[float]: None, 0, 8.1 and 10 percent.
TaxRates == {None, 0, 81, 100}

\* Optional[bool].
Deliveries == {"None", "True", "False"}

Orders ==
    [items : UNION {[1..n -> OrderItem] : n \in 1..MaxItems},
     discount : Discounts, delivery : Deliveries, tax_rate : TaxRates]

\* Line 109, "if order.discount": None and 0.0 are false, a non-empty
\* string is true.
Truthy(discount) ==
    \/ discount.kind = "percent"
    \/ discount.kind = "flat" /\ discount.value # 0

\* Lines 108-114, with a percentage taken as an amount.
DiscountAmountFlat(discount, subtotal) ==
    IF Truthy(discount) THEN discount.value ELSE 0

\* Lines 108-114.
DiscountAmount(discount, subtotal) ==
    IF ~Truthy(discount) THEN 0
    ELSE IF discount.kind = "percent" THEN (subtotal * discount.value) \div 100
    ELSE discount.value

\* Line 116: order.tax_rate or 8.1.
EffectiveTaxRate(tax_rate) ==
    IF tax_rate = None \/ tax_rate = 0 THEN DefaultTaxRate ELSE tax_rate

\* A line whose unit price grows with the number of earlier calls.
LineRepriced(oi) ==
    LET item == load_menu[Lookup(oi.name)[1]]
        unit == item.Price + 1000 * Len(calls)
    IN [Item |-> oi.name, Quantity |-> oi.quantity, UnitPrice |-> unit,
        TotalPrice |-> unit * oi.quantity, Category |-> item.Category]

\* Lines 98-107: the line of one resolved item.
Line(oi) ==
    LET item == load_menu[Lookup(oi.name)[1]]
    IN [Item |-> oi.name, Quantity |-> oi.quantity, UnitPrice |-> item.Price,
        TotalPrice |-> item.Price * oi.quantity, Category |-> item.Category]

RECURSIVE SumTotals(_)
\* Line 100: subtotal += total, over the lines.
SumTotals(lines) ==
    IF lines = <<>> THEN 0
    ELSE lines[1].TotalPrice + SumTotals(Tail(lines))

\* Lines 98-126: the lines and totals of the items, and the returned dict.
Quote(o, items) ==
    LET lines == [k \in DOMAIN items |-> Line(items[k])]
        subtotal == SumTotals(lines)
        discount == DiscountAmount(o.discount, subtotal)
        adjusted == subtotal - discount
        tax == (adjusted * EffectiveTaxRate(o.tax_rate)) \div 1000
        fee == IF o.delivery = "True" THEN DeliveryFee ELSE 0
    IN [status |-> "ok", quotation |-> lines, subtotal |-> subtotal,
        discount |-> discount, tax |-> tax, delivery_fee |-> fee,
        final_total |-> adjusted + tax + fee]

\* A quotation of the items that resolve, the others left out.
calculate_quotation_skipping(o) ==
    Quote(o, SelectSeq(o.items, LAMBDA oi : Lookup(oi.name) # <<>>))

\* Lines 86-129: the loop raises at the first item that does not resolve;
\* the lines gathered so far are local and are lost with the exception.
calculate_quotation(o) ==
    LET bad == {k \in DOMAIN o.items : Lookup(o.items[k].name) = <<>>}
    IN IF bad # {}
       THEN [status |-> "error",
             error |-> o.items[CHOOSE k \in bad : \A j \in bad : k <= j].name]
       ELSE Quote(o, o.items)

NoOrder == [items |-> <<>>, discount |-> [kind |-> "none", value |-> 0],
            delivery |-> "None", tax_rate |-> None]

NoQuotation == [status |-> "none"]

MaxCalls == 3

\* The sessions as they are when calculate_quotation is called.
Sessions == [histories |-> user_histories, active |-> active_agent_per_user,
             setup |-> google_setup]

\* One call of calculate_quotation on the order.
CalculateQuotation ==
    /\ quotation = NoQuotation
    /\ order # NoOrder
    /\ Len(calls) < MaxCalls
    /\ quotation' = calculate_quotation(order)
    /\ calls' = Append(calls, [order |-> order, result |-> quotation',
                               at |-> Sessions])
    /\ UNCHANGED <<user_histories, active_agent_per_user, user_states,
                   next_step, threads, google_setup, order, services,
                   oauth_states>>

\* Line 1039 on a later turn: another Order is handed to calculate_quotation.
ReceiveOrder(o) ==
    /\ quotation # NoQuotation
    /\ Len(calls) < MaxCalls
    /\ order' = o
    /\ quotation' = NoQuotation
    /\ UNCHANGED <<user_histories, active_agent_per_user, user_states,
                   next_step, threads, google_setup, calls, services,
                   oauth_states>>

\* ------------------------------------------------------------ OAuth server
\* bot.py lines 84-85 and 132-257.  Flask serves every request of
\* /oauth2callback in a thread of its own; monitor_oauth_queue is one thread.
MaxCallbacks == 2

\* request.args.get(...) of a parameter that is missing or empty.
NoParam == 0

\* The parameters of a request (request.args): a code with every state
\* token (issued or not), and requests without state, without code, and
\* with an error.
Requests ==
    {[state |-> state, code |-> "4/0AX", error |-> ""] : state \in 1..MaxMsgs}
    \cup {[state |-> NoParam, code |-> "4/0AX", error |-> ""],
          [state |-> 1, code |-> "", error |-> ""],
          [state |-> 1, code |-> "4/0AX", error |-> "access_denied"]}

\* del d[k] raises KeyError when k is not a key of d.
DelNeverRaises(d, k) == FALSE

DelRaises(d, k) == k \notin DOMAIN d

\* The Timer of line 983 fires: oauth_states.pop(state, None).
expire_state(state) ==
    /\ state \in DOMAIN oauth_states
    /\ oauth_states' = Del(oauth_states, state)
    /\ UNCHANGED <<user_histories, active_agent_per_user, user_states,
                   next_step, threads, google_setup, order, quotation, calls,
                   services>>

\* oauth_callback, lines 136-150: a request arrives, its parameters are
\* checked and the user of the state token is looked up.
oauth_callback_get(state, code, error) ==
    /\ Len(callbacks) < MaxCallbacks
    /\ LET user_id == IF state \in DOMAIN oauth_states THEN oauth_states[state]
                      ELSE "none"
           res == IF error # "" THEN "error"
                  ELSE IF code = "" \/ state = NoParam THEN "missing"
                  ELSE IF user_id = "none" THEN "invalid"
                  ELSE "none"
       IN callbacks' = Append(callbacks,
             [state |-> state, code |-> code, error |-> error,
              user_id |-> IF res = "none" THEN user_id ELSE "none",
              pc |-> IF res = "none" THEN "del" ELSE "done", res |-> res])
    /\ UNCHANGED <<user_histories, active_agent_per_user, user_states,
                   next_step, threads, google_setup, order, quotation, calls,
                   now, calendar, calendar_call, oauth_callback_queue, monitor,
                   oauth_log, oauth_states, contacts, contact_call>>

\* Line 156, del oauth_states[state]; a KeyError ends the request in the
\* except branch of lines 164-166.
oauth_callback_del(j) ==
    /\ j \in DOMAIN callbacks
    /\ callbacks[j].pc = "del"
    /\ IF DelRaises(oauth_states, callbacks[j].state)
       THEN /\ callbacks' = [callbacks EXCEPT ![j].pc = "done", ![j].res = "exception"]
            /\ UNCHANGED oauth_states
       ELSE /\ callbacks' = [callbacks EXCEPT ![j].pc = "put"]
            /\ oauth_states' = Del(oauth_states, callbacks[j].state)
    /\ UNCHANGED <<user_histories, active_agent_per_user, user_states,
                   next_step, threads, google_setup, order, quotation, calls,
                   now, calendar, calendar_call, oauth_callback_queue, monitor,
                   oauth_log, contacts, contact_call>>

\* Line 159, oauth_callback_queue.put((user_id, code)).
oauth_callback_put(j) ==
    /\ j \in DOMAIN callbacks
    /\ callbacks[j].pc = "put"
    /\ LET pair == <<callbacks[j].user_id, callbacks[j].code>>
       IN /\ oauth_callback_queue' = Append(oauth_callback_queue, pair)
          /\ oauth_log' = [oauth_log EXCEPT !.put = Append(@, pair)]
    /\ callbacks' = [callbacks EXCEPT ![j].pc = "done", ![j].res = "queued"]
    /\ UNCHANGED <<user_histories, active_agent_per_user, user_states,
                   next_step, threads, google_setup, order, quotation, calls,
                   now, calendar, calendar_call, monitor, oauth_states, contacts,
                   contact_call>>

\* monitor_oauth_queue, line 227: oauth_callback_queue.get(timeout=1) returns
\* the oldest pair (on queue.Empty the loop tries again).
monitor_get ==
    /\ monitor.pc = "get"
    /\ oauth_callback_queue # <<>>
    /\ monitor' = [pc |-> "process", item |-> <<Head(oauth_callback_queue)>>]
    /\ oauth_callback_queue' = Tail(oauth_callback_queue)
    /\ UNCHANGED <<user_histories, active_agent_per_user, user_states,
                   next_step, threads, google_setup, order, quotation, calls,
                   now, calendar, calendar_call, callbacks, oauth_log,
                   oauth_states, contacts, contact_call>>

\* What processing a pair can come to: handle_oauth_callback succeeds or
\* fails (it catches its own exceptions), or a send_message raises, which
\* the inner except branch reports (lines 250-252) and, when that
\* send_message raises too, the outer except branch logs (lines 256-257).
Outcomes == {"success", "failed", "raised"}

\* An exception ends the loop.
AfterItemUncaught(outcome) ==
    IF outcome = "raised" THEN "stopped" ELSE "get"

\* Lines 224-257: every exception is caught inside the while loop, which
\* goes on with the next get.
AfterItem(outcome) == "get"

\* monitor_oauth_queue, lines 228-257: the pair taken is processed.
monitor_process(outcome) ==
    /\ monitor.pc = "process"
    /\ google_setup' = (google_setup \/ outcome = "success")
    /\ oauth_log' = [oauth_log EXCEPT !.processed =
                        Append(@, [pair |-> monitor.item[1], outcome |-> outcome])]
    /\ monitor' = [pc |-> AfterItem(outcome), item |-> <<>>]
    /\ UNCHANGED <<user_histories, active_agent_per_user, user_states,
                   next_step, threads, order, quotation, calls,
                   now, calendar, calendar_call, oauth_callback_queue, callbacks,
                   oauth_states, contacts, contact_call>>

\* The server before any request: no token issued, the queue empty, the
\* monitor waiting.
OAuthAtStart ==
    /\ oauth_states = EmptyDict
    /\ oauth_callback_queue = <<>>
    /\ callbacks = <<>>
    /\ monitor = [pc |-> "get", item |-> <<>>]
    /\ oauth_log = [put |-> <<>>, processed |-> <<>>]

\* ----------------------------------------------------------- contact tools
\* tools_handler.py lines 216-225 and google_drive_handler.py lines 243-401.
MaxContactCalls == 2

\* Contact (tools_handler.py lines 53-57): Name and Email are strings, Phone
\* and Address are optional ("None" stands for None).
Names == {"", "Ann", " ann ", "Bob"}

Emails == {"ann@x.com", "Ann@X.com ", "bob"}

Phones == {"None", "602-555-0100", "12345"}

Addresses == {"None", " 1 Main St "}

Contacts == [Name : Names, Email : Emails, Phone : Phones, Address : Addresses]

\* str.strip() and str.lower() on the strings above.
strip(str) ==
    CASE str = " ann " -> "ann"
      [] str = "Ann@X.com " -> "Ann@X.com"
      [] str = " 1 Main St " -> "1 Main St"
      [] OTHER -> str

lower(str) ==
    CASE str = "Ann" -> "ann"
      [] str = "Bob" -> "bob"
      [] str = "Ann@X.com" -> "ann@x.com"
      [] OTHER -> str

\* validate_email (lines 243-259): <<is_valid, normalized_email>>.
validate_email(email) ==
    IF email = "" THEN <<FALSE, "">>
    ELSE LET normalized == lower(strip(email))
         IN <<normalized \in {"ann@x.com"}, normalized>>

\* validate_phone (lines 261-278): an empty phone is valid, a phone of ten
\* digits is formatted, any other is invalid.
validate_phone(phone) ==
    IF phone \in {"None", ""} THEN <<TRUE, "">>
    ELSE IF phone = "602-555-0100" THEN <<TRUE, "(602) 555-0100">>
    ELSE <<FALSE, phone>>

\* normalize_contact_data (lines 280-309): <<is_valid, data>>, or <<>> when
\* address.strip() raises AttributeError on None.
normalize_contact_data(name, email, phone, address) ==
    IF strip(name) = "" THEN <<FALSE, <<>>>>
    ELSE IF ~validate_email(email)[1] THEN <<FALSE, <<>>>>
    ELSE IF ~validate_phone(phone)[1] THEN <<FALSE, <<>>>>
    ELSE IF address = "None" THEN <<>>
    ELSE <<TRUE, [name |-> strip(name), email |-> validate_email(email)[2],
                  phone |-> validate_phone(phone)[2], address |-> strip(address)]>>

\* append_contact (google_drive_handler.py lines 311-351): the tuple
\* (success, message) it returns and the rows it leaves; sheets is false
\* when a call of the Sheets API raises.
append_contact(name, email, phone, address, sheets) ==
    LET normalized == normalize_contact_data(name, email, phone, address)
    IN IF normalized = <<>> THEN [result |-> <<FALSE, "Failed to add contact">>, rows |-> contacts]
       ELSE IF ~normalized[1] THEN [result |-> <<FALSE, "invalid">>, rows |-> contacts]
       ELSE IF ~sheets THEN [result |-> <<FALSE, "Failed to add contact">>, rows |-> contacts]
       ELSE LET data == normalized[2]
            IN IF \E k \in DOMAIN contacts :
                     \/ lower(strip(contacts[k].email)) = data.email
                     \/ lower(strip(contacts[k].name)) = lower(data.name)
               THEN [result |-> <<FALSE, "already exists">>, rows |-> contacts]
               ELSE [result |-> <<TRUE, "added successfully">>,
                     rows |-> Append(contacts, data)]

\* edit_contact of google_drive_handler.py (lines 353-401): the row with the
\* contact's email is replaced.
gdh_edit_contact(name, email, phone, address, sheets) ==
    LET normalized == normalize_contact_data(name, email, phone, address)
    IN IF normalized = <<>> THEN [result |-> <<FALSE, "Failed to edit contact">>, rows |-> contacts]
       ELSE IF ~normalized[1] THEN [result |-> <<FALSE, "invalid">>, rows |-> contacts]
       ELSE IF ~sheets THEN [result |-> <<FALSE, "Failed to edit contact">>, rows |-> contacts]
       ELSE LET data == normalized[2]
                found == {k \in DOMAIN contacts :
                             lower(strip(contacts[k].email)) = lower(data.email)}
            IN IF found = {}
               THEN [result |-> <<FALSE, "not found">>, rows |-> contacts]
               ELSE [result |-> <<TRUE, "updated successfully">>,
                     rows |-> [contacts EXCEPT
                                 ![CHOOSE k \in found : \A j \in found : k <= j] = data]]

\* bool(x) of a tuple: a tuple is false only when it is empty.
Truth(tuple) == Len(tuple) # 0

NoContactCall ==
    [tool |-> "none", n |-> 0, contact |-> <<>>, result |-> <<>>,
     written |-> FALSE, message |-> ""]

\* What a call of a contact tool leaves in contact_call; n counts the
\* calls, written tells whether the sheet was written.
ContactCall(tool, contact, store, message) ==
    [tool |-> tool, n |-> contact_call.n + 1, contact |-> contact,
     result |-> store.result, written |-> store.rows # contacts, message |-> message]

\* The tool add_contact (tools_handler.py lines 216-219).
add_contact(contact, sheets) ==
    /\ contact_call.n < MaxContactCalls
    /\ LET store == append_contact(contact.Name, contact.Email, contact.Phone,
                                   contact.Address, sheets)
       IN /\ contacts' = store.rows
          /\ contact_call' = ContactCall("add_contact", contact, store,
                IF Truth(store.result) THEN "Contact added successfully."
                ELSE "Failed to add contact.")
    /\ UNCHANGED <<user_histories, active_agent_per_user, user_states,
                   next_step, threads, google_setup, order, quotation, calls,
                   now, calendar, calendar_call, oauth_callback_queue, callbacks,
                   monitor, oauth_log, oauth_states>>

\* The tool edit_contact (tools_handler.py lines 221-225).
edit_contact(contact, sheets) ==
    /\ contact_call.n < MaxContactCalls
    /\ LET store == gdh_edit_contact(contact.Name, contact.Email, contact.Phone,
                                     contact.Address, sheets)
       IN /\ contacts' = store.rows
          /\ contact_call' = ContactCall("edit_contact", contact, store,
                IF Truth(store.result) THEN "Contact edited successfully."
                ELSE "Failed to edit contact.")
    /\ UNCHANGED <<user_histories, active_agent_per_user, user_states,
                   next_step, threads, google_setup, order, quotation, calls,
                   now, calendar, calendar_call, oauth_callback_queue, callbacks,
                   monitor, oauth_log, oauth_states>>

\* The contacts sheet holds its header row only.
ContactsAtStart ==
    /\ contacts = <<>>
    /\ contact_call = NoContactCall

\* ------------------------------------------------------ delivery calendar
\* google_calendar_handler.py.  A datetime string "%Y-%m-%d %H:%M:%S" is the
\* tuple of the numbers written in it, <<year, month, day, hour>>; a
\* datetime object is a record of its fields.
MaxCalendarCalls == 2

Years == {2024, 2025, 2026}

\* Month, day and hour.
DayTimes == {<<2, 29, 9>>, <<6, 15, 9>>, <<6, 15, 17>>}

DatetimeStrings ==
    {<<y, dt[1], dt[2], dt[3]>> : y \in Years, dt \in DayTimes}

\* None, or the empty string: an argument that is not given.
NotGiven == <<>>

IsLeap(year) == year % 4 = 0 /\ (year % 100 # 0 \/ year % 400 = 0)

\* The calendar has the day: of the days of DayTimes only February 29
\* depends on the year.
IsDate(year, month, day) == (month = 2 /\ day = 29) => IsLeap(year)

\* datetime.strptime(dt_str, '%Y-%m-%d %H:%M:%S'): the datetime, or none
\* when the string names no date (ValueError).
strptime(dt_str) ==
    IF IsDate(dt_str[1], dt_str[2], dt_str[3])
    THEN <<[year |-> dt_str[1], month |-> dt_str[2], day |-> dt_str[3],
            hour |-> dt_str[4], utcoffset |-> None]>>
    ELSE <<>>

\* dt.replace(year=year): ValueError when the day does not exist in year.
replace_year(dt, year) ==
    IF IsDate(year, dt.month, dt.day) THEN <<[dt EXCEPT !.year = year]>> ELSE <<>>

\* America/Phoenix keeps UTC-7 the whole year.
UtcOffset == -7

\* mt_tz.localize(dt): the same wall-clock fields, with the zone's offset.
localize(dt) == [dt EXCEPT !.utcoffset = UtcOffset]

\* dt.isoformat(): "YYYY-MM-DDTHH:MM:SS-07:00", as the tuple of its numbers.
isoformat(dt) == <<dt.year, dt.month, dt.day, dt.hour, dt.utcoffset>>

\* a < b for two datetimes of the same zone.
Earlier(a, b) ==
    \/ a.year < b.year
    \/ a.year = b.year /\ a.month < b.month
    \/ a.year = b.year /\ a.month = b.month /\ a.day < b.day
    \/ a.year = b.year /\ a.month = b.month /\ a.day = b.day /\ a.hour < b.hour

\* Line 109: the year every datetime is moved to.
ScheduleYear == 2025

\* validate_datetime (lines 99-124): <<iso string>>, or <<>> when it raises
\* ValueError.
validate_datetime(dt_str) ==
    LET parsed == strptime(dt_str)
    IN IF parsed = <<>> THEN <<>>
       ELSE LET moved == IF parsed[1].year # ScheduleYear
                         THEN replace_year(parsed[1], ScheduleYear)
                         ELSE parsed
            IN IF moved = <<>> THEN <<>>
               ELSE IF Earlier(localize(moved[1]), now) THEN <<>>
               ELSE <<isoformat(localize(moved[1]))>>

NoCall ==
    [op |-> "none", n |-> 0, start_datetime |-> NotGiven,
     end_datetime |-> NotGiven, at |-> None, result |-> "none", body |-> EmptyDict]

\* The clock advances.
Tick(later) ==
    /\ Earlier(now, later)
    /\ now' = later
    /\ UNCHANGED <<user_histories, active_agent_per_user, user_states,
                   next_step, threads, google_setup, order, quotation, calls,
                   calendar, calendar_call, oauth_states, oauth_callback_queue,
                   callbacks, monitor, oauth_log, contacts, contact_call>>

\* What a call of the handler leaves in calendar_call; n counts the calls.
CalendarCall(op, start_datetime, end_datetime, result, body) ==
    [op |-> op, n |-> calendar_call.n + 1,
     start_datetime |-> start_datetime, end_datetime |-> end_datetime,
     at |-> now, result |-> result, body |-> body]

\* create_delivery_event (lines 126-161); inserted is false when
\* create_event raises.
create_delivery_event(start_datetime, end_datetime, inserted) ==
    /\ calendar_call.n < MaxCalendarCalls
    /\ LET start_dt == validate_datetime(start_datetime)
           end_dt == validate_datetime(end_datetime)
           event_body == [start |-> start_dt, end |-> end_dt]
           ok == start_dt # <<>> /\ end_dt # <<>> /\ inserted
       IN /\ calendar' = IF ok THEN Append(calendar, event_body) ELSE calendar
          /\ calendar_call' = CalendarCall("create", start_datetime, end_datetime,
                                           IF ok THEN "ok" ELSE "raised",
                                           IF ok THEN event_body ELSE EmptyDict)
    /\ UNCHANGED <<user_histories, active_agent_per_user, user_states,
                   next_step, threads, google_setup, order, quotation, calls, now,
                   oauth_states, oauth_callback_queue, callbacks, monitor,
                   oauth_log, contacts, contact_call>>

\* edit_delivery_event (lines 163-189): only the arguments that are given
\* are validated and patched; patched is false when update_event raises.
edit_delivery_event(event_id, start_datetime, end_datetime, patched) ==
    /\ calendar_call.n < MaxCalendarCalls
    /\ event_id \in DOMAIN calendar
    /\ LET start_dt == IF start_datetime # NotGiven
                       THEN validate_datetime(start_datetime) ELSE <<>>
           end_dt == IF end_datetime # NotGiven
                     THEN validate_datetime(end_datetime) ELSE <<>>
           ok == /\ start_datetime # NotGiven => start_dt # <<>>
                 /\ end_datetime # NotGiven => end_dt # <<>>
                 /\ patched
           fields == {f \in {"start", "end"} :
                         \/ f = "start" /\ start_datetime # NotGiven
                         \/ f = "end" /\ end_datetime # NotGiven}
           event_body == [f \in fields |-> IF f = "start" THEN start_dt ELSE end_dt]
       IN /\ calendar' = IF ok
                         THEN [calendar EXCEPT ![event_id] =
                                 [f \in {"start", "end"} |->
                                     IF f \in fields THEN event_body[f] ELSE @[f]]]
                         ELSE calendar
          /\ calendar_call' = CalendarCall("edit", start_datetime, end_datetime,
                                           IF ok THEN "ok" ELSE "raised",
                                           IF ok THEN event_body ELSE EmptyDict)
    /\ UNCHANGED <<user_histories, active_agent_per_user, user_states,
                   next_step, threads, google_setup, order, quotation, calls, now,
                   oauth_states, oauth_callback_queue, callbacks, monitor,
                   oauth_log, contacts, contact_call>>

\* The services before any tool has been called; the clock stands at a
\* moment of ScheduleYear.
ServicesAtStart ==
    /\ now = localize(strptime(<<2025, 6, 15, 9>>)[1])
    /\ calendar = <<>>
    /\ calendar_call = NoCall
    /\ OAuthAtStart
    /\ ContactsAtStart


\* ------------------------------------------------------- specification
\* Spec: the program from its start.
Init ==
    /\ user_histories = EmptyDict
    /\ active_agent_per_user = EmptyDict
    /\ user_states = EmptyDict
    /\ next_step = [u \in Users |-> <<>>]
    /\ threads = <<>>
    /\ google_setup \in BOOLEAN
    /\ order = NoOrder
    /\ quotation = NoQuotation
    /\ calls = <<>>
    /\ ServicesAtStart

Orchestrator ==
    \/ \E u \in Users, text \in Texts : handle_message(u, text)
    \/ oauth_callback
    \/ \E i \in 1..MaxMsgs : process_message_begin(i)
    \/ \E i \in 1..MaxMsgs : process_message_run_raises(i)
    \/ \E i \in 1..MaxMsgs, last \in Agents, out \in {"order", "order_unknown_item", "text"} :
          process_message_run_returns(i, last, out)

Next == Orchestrator

Spec == Init /\ [][Next]_vars

\* SpecWF: the workflow callbacks, each started from the state in which its
\* register_next_step_handler call leaves the program: user "A" has a
\* session (history of the turn that produced the order, active agent reset
\* to Triage by line 1076) and one pending continuation; user "B" is new.
\*   confirmation_handler            registered at line 1066
\*   handle_calendar_after_approval  registered at line 382
\*   handle_calendar_confirmation    registered at line 450, after the draft
\*                                   and the agent's proposal are stored
\*   handle_specific_modification    registered at line 552, which is only
\*                                   reached with a draft stored for the user
Entry == {"confirmation_handler", "handle_calendar_after_approval",
          "handle_calendar_confirmation", "handle_specific_modification"}

HasDraft == {"handle_calendar_confirmation", "handle_specific_modification"}

InitWF ==
    /\ user_histories = [u \in {"A"} |-> <<UserEntry(0), AssistantEntry(0)>>]
    /\ active_agent_per_user = [u \in {"A"} |-> triage_agent]
    /\ \E h \in Entry :
          /\ next_step = [u \in Users |-> IF u = "A" THEN <<Continuation(h, "A")>> ELSE <<>>]
          /\ user_states = IF h \in HasDraft
                           THEN [u \in {"A"} |-> [NewDraft("order") EXCEPT !.calendar_agent_response = 0]]
                           ELSE EmptyDict
    /\ threads = <<>>
    /\ google_setup \in BOOLEAN
    /\ order = NoOrder
    /\ quotation = NoQuotation
    /\ calls = <<>>
    /\ ServicesAtStart

Workflow ==
    \/ \E u \in Users, text \in Texts : next_step_dispatch(u, text)
    \/ \E i \in 1..MaxMsgs, send_status \in BOOLEAN : confirmation_handler(i, send_status)
    \/ \E i \in 1..MaxMsgs : handle_calendar_after_approval(i)
    \/ \E i \in 1..MaxMsgs, ok \in BOOLEAN : after_approval_run(i, ok)
    \/ \E i \in 1..MaxMsgs, outcome \in {"created", "failed", "raised"} :
          handle_calendar_confirmation(i, outcome)
    \/ \E i \in 1..MaxMsgs : handle_calendar_modification(i)
    \/ \E i \in 1..MaxMsgs, ok \in BOOLEAN : handle_specific_modification(i, ok)
    \/ \E i \in 1..MaxMsgs, ok \in BOOLEAN : handle_calendar_response(i, ok)

NextWF == Orchestrator \/ Workflow

SpecWF == InitWF /\ [][NextWF]_vars

\* The steps of the handler invocation i: everything the program does
\* without a further message arriving.
ThreadStep(i) ==
    \/ process_message_begin(i)
    \/ process_message_run_raises(i)
    \/ \E last \in Agents, out \in {"order", "order_unknown_item", "text"} :
          process_message_run_returns(i, last, out)
    \/ \E send_status \in BOOLEAN : confirmation_handler(i, send_status)
    \/ handle_calendar_after_approval(i)
    \/ \E ok \in BOOLEAN : after_approval_run(i, ok)
    \/ \E outcome \in {"created", "failed", "raised"} :
          handle_calendar_confirmation(i, outcome)
    \/ handle_calendar_modification(i)
    \/ \E ok \in BOOLEAN : handle_specific_modification(i, ok)
    \/ \E ok \in BOOLEAN : handle_calendar_response(i, ok)

\* SpecWFFair: SpecWF in which every started thread runs to its end (the
\* thread of handle_message and the workers of the bot are scheduled, every
\* external call returns or raises).  Nothing obliges a user to send a
\* message or the browser to call back.
SpecWFFair == SpecWF /\ \A i \in 1..MaxMsgs : WF_vars(ThreadStep(i))

\* SpecPricing: calculate_quotation applied once to every order of Orders;
\* the sessions are not involved.
InitPricing ==
    /\ user_histories = EmptyDict
    /\ active_agent_per_user = EmptyDict
    /\ user_states = EmptyDict
    /\ next_step = [u \in Users |-> <<>>]
    /\ threads = <<>>
    /\ google_setup = TRUE
    /\ order \in Orders
    /\ quotation = NoQuotation
    /\ calls = <<>>
    /\ ServicesAtStart

NextPricing == CalculateQuotation

SpecPricing == InitPricing /\ [][NextPricing]_vars

\* SpecPure: calculate_quotation called again and again, on the same order
\* or another, while messages arrive and sessions are created and grow.
PureOrders ==
    {o \in Orders : /\ Len(o.items) = 1
                    /\ o.items[1].quantity = 1
                    /\ o.items[1].name \in {"Hummus Plat", "Sushi"}
                    /\ o.discount.kind = "percent"
                    /\ o.delivery = "True"
                    /\ o.tax_rate = None}

InitPure ==
    /\ user_histories = EmptyDict
    /\ active_agent_per_user = EmptyDict
    /\ user_states = EmptyDict
    /\ next_step = [u \in Users |-> <<>>]
    /\ threads = <<>>
    /\ google_setup \in BOOLEAN
    /\ order \in PureOrders
    /\ quotation = NoQuotation
    /\ calls = <<>>
    /\ ServicesAtStart

NextPure ==
    \/ CalculateQuotation
    \/ \E o \in PureOrders : ReceiveOrder(o)
    \/ \E u \in Users : handle_message(u, "y")
    \/ \E i \in 1..MaxMsgs : process_message_begin(i)
    \/ oauth_callback

SpecPure == InitPure /\ [][NextPure]_vars

\* SpecCalendar: the calendar handler called with every pair of datetime
\* strings, at any moment of the three years.
Moments ==
    {localize(strptime(dt_str)[1]) : dt_str \in {d \in DatetimeStrings : strptime(d) # <<>>}}

InitCalendar ==
    /\ user_histories = EmptyDict
    /\ active_agent_per_user = EmptyDict
    /\ user_states = EmptyDict
    /\ next_step = [u \in Users |-> <<>>]
    /\ threads = <<>>
    /\ google_setup = TRUE
    /\ order = NoOrder
    /\ quotation = NoQuotation
    /\ calls = <<>>
    /\ now \in Moments
    /\ calendar = <<>>
    /\ calendar_call = NoCall
    /\ OAuthAtStart
    /\ ContactsAtStart

NextCalendar ==
    \/ \E later \in Moments : Tick(later)
    \/ \E start_datetime, end_datetime \in DatetimeStrings, inserted \in BOOLEAN :
          create_delivery_event(start_datetime, end_datetime, inserted)
    \/ \E event_id \in 1..MaxCalendarCalls,
          start_datetime, end_datetime \in DatetimeStrings \cup {NotGiven},
          patched \in BOOLEAN :
          edit_delivery_event(event_id, start_datetime, end_datetime, patched)

SpecCalendar == InitCalendar /\ [][NextCalendar]_vars


\* SpecOAuth: users without Google setup send messages and are given
\* authorization links; the browser calls back, with any parameters and any
\* number of times at once; the timers expire the tokens; the monitor
\* thread runs whenever it can (it is a thread of its own in a loop).
InitOAuth ==
    /\ user_histories = EmptyDict
    /\ active_agent_per_user = EmptyDict
    /\ user_states = EmptyDict
    /\ next_step = [u \in Users |-> <<>>]
    /\ threads = <<>>
    /\ google_setup = FALSE
    /\ order = NoOrder
    /\ quotation = NoQuotation
    /\ calls = <<>>
    /\ ServicesAtStart

NextOAuth ==
    \/ \E u \in Users : handle_message(u, "y")
    \/ \E i \in 1..MaxMsgs : process_message_begin(i)
    \/ \E state \in 1..MaxMsgs : expire_state(state)
    \/ \E args \in Requests : oauth_callback_get(args.state, args.code, args.error)
    \/ \E j \in 1..MaxCallbacks : oauth_callback_del(j)
    \/ \E j \in 1..MaxCallbacks : oauth_callback_put(j)
    \/ monitor_get
    \/ \E outcome \in Outcomes : monitor_process(outcome)

SpecOAuth ==
    /\ InitOAuth /\ [][NextOAuth]_vars
    /\ WF_vars(monitor_get)
    /\ WF_vars(\E outcome \in Outcomes : monitor_process(outcome))

\* SpecContacts: the Contacts agent calls the two tools, with any contact.
InitContacts ==
    /\ user_histories = EmptyDict
    /\ active_agent_per_user = EmptyDict
    /\ user_states = EmptyDict
    /\ next_step = [u \in Users |-> <<>>]
    /\ threads = <<>>
    /\ google_setup = TRUE
    /\ order = NoOrder
    /\ quotation = NoQuotation
    /\ calls = <<>>
    /\ ServicesAtStart

NextContacts ==
    \/ \E contact \in Contacts, sheets \in BOOLEAN : add_contact(contact, sheets)
    \/ \E contact \in Contacts, sheets \in BOOLEAN : edit_contact(contact, sheets)

SpecContacts == InitContacts /\ [][NextContacts]_vars

\* ================================================================ claims
Hist(u) == IF u \in DOMAIN user_histories THEN user_histories[u] ELSE <<>>

HasHandler(steps, handler) == \E k \in DOMAIN steps : steps[k].handler = handler

IsWorkflowThread(t) == t.handler # "process_message"

\* A workflow of u has not reached a terminal state: a continuation is
\* pending or one of its state handlers is still running.
WorkflowLive(u) ==
    \/ next_step[u] # <<>>
    \/ \E i \in DOMAIN threads :
          threads[i].user = u /\ IsWorkflowThread(threads[i]) /\ threads[i].pc # "done"

Acting(u) ==
    \E i \in DOMAIN threads' :
       /\ threads'[i].user = u
       /\ (i \notin DOMAIN threads \/ threads'[i] # threads[i])

SessionOf(v) ==
    <<v \in DOMAIN user_histories, Hist(v),
      IF v \in DOMAIN active_agent_per_user THEN active_agent_per_user[v] ELSE "none",
      v \in DOMAIN user_states,
      IF v \in DOMAIN user_states THEN user_states[v] ELSE <<>>,
      next_step[v]>>

\* C2 (P4 session isolation): a step taken for user u leaves the history,
\* active agent, workflow state and pending continuation of every other
\* user unchanged, under every interleaving.
C2_SessionIsolation ==
    [][\A u \in Users : Acting(u) =>
          \A v \in Users \ {u} : SessionOf(v)' = SessionOf(v)]_vars

\* Turns of "A" and "B" suspended in their agent calls at the same time,
\* "A" with a stored draft and "B" with a stored history.
C2_Witness ==
    \E i, j \in DOMAIN threads :
       /\ threads[i].user = "A" /\ threads[i].pc = "after_approval:Runner.run"
       /\ threads[j].user = "B" /\ threads[j].pc = "Runner.run"
       /\ "A" \in DOMAIN user_states
       /\ "B" \in DOMAIN user_histories

\* The history that processing the first n turns one after the other, in
\* arrival order and with the outcomes they had, leaves for user u.
RECURSIVE SeqHistory(_, _)
SeqHistory(u, n) ==
    IF n = 0 THEN <<>>
    ELSE LET t == threads[n]
             prev == SeqHistory(u, n - 1)
             input == Append(prev, UserEntry(t.msg))
         IN IF t.user # u \/ t.res = "gated" THEN prev
            ELSE IF t.res = "run_error" THEN input
            ELSE LastN(input, MAX_HISTORY) \o NewItems(t.msg, t.k)

\* The active agent the latest processed turn of u leaves.
RECURSIVE SeqActive(_, _)
SeqActive(u, n) ==
    IF n = 0 THEN "none"
    ELSE LET t == threads[n]
         IN IF t.user # u \/ t.res = "gated" THEN SeqActive(u, n - 1) ELSE t.agent

Quiescent(u) == \A i \in DOMAIN threads : threads[i].user = u => threads[i].pc = "done"

\* C3 (per-user ordering): once the turns of a user have all ended, the
\* user's history and active agent are those of processing the turns one
\* after the other in arrival order.
C3_PerUserOrdering ==
    \A u \in Users :
       Quiescent(u) =>
          /\ Hist(u) = SeqHistory(u, Len(threads))
          /\ u \in DOMAIN active_agent_per_user =>
                active_agent_per_user[u] = SeqActive(u, Len(threads))

\* C4 (workflow bypass): while a continuation is pending for a user, a
\* message of that user starts the pending state handler and never
\* process_message; no step of a state handler changes any history or
\* active agent.
C4_WorkflowBypass ==
    [][/\ \A u \in Users : next_step[u] # <<>> =>
             \A i \in (DOMAIN threads') \ (DOMAIN threads) :
                threads'[i].user = u =>
                   /\ threads'[i].handler # "process_message"
                   /\ HasHandler(next_step[u], threads'[i].handler)
       /\ \A i \in DOMAIN threads :
             (IsWorkflowThread(threads[i]) /\ threads'[i] # threads[i]) =>
                /\ user_histories' = user_histories
                /\ active_agent_per_user' = active_agent_per_user]_vars

\* The turn of "A" sent while its continuation was pending has run the
\* state handler to its end; history and active agent are as before it.
C4_Witness ==
    /\ threads # <<>>
    /\ threads[1].user = "A" /\ IsWorkflowThread(threads[1]) /\ threads[1].pc = "done"
    /\ Hist("A") = <<UserEntry(0), AssistantEntry(0)>>
    /\ active_agent_per_user["A"] = triage_agent

\* C5 (order to workflow): a turn that ends with a finalized Order of the
\* order handler whose items all resolve has a quotation computed and
\* leaves confirmation_handler pending for the user.
C5_OrderStartsWorkflow ==
    [][\A i \in DOMAIN threads :
          (threads[i].pc = "Runner.run" /\ threads'[i].pc = "done"
              /\ threads'[i].out = "order") =>
             /\ threads'[i].quoted
             /\ HasHandler(next_step'[threads[i].user], "confirmation_handler")]_vars

C7_ScheduleConfirmation ==
    [][\A i \in DOMAIN threads :
          LET u == threads[i].user
          IN /\ (threads[i].pc = "handle_calendar_after_approval"
                    /\ threads'[i] # threads[i]) =>
                   IF StartsWithY(threads[i].text)
                   THEN /\ u \in DOMAIN user_states'
                        /\ user_states'[u].calendar_agent_response = None
                        /\ threads'[i].pc = "after_approval:Runner.run"
                   ELSE /\ threads'[i].pc = "done"
                        /\ user_states' = user_states
                        /\ next_step'[u] = <<>>
             /\ (threads[i].pc = "after_approval:Runner.run"
                    /\ threads'[i].pc = "done" /\ threads'[i].res # "error") =>
                   /\ u \in DOMAIN user_states'
                   /\ user_states'[u].calendar_agent_response = threads[i].msg
                   /\ next_step'[u] = <<Continuation("handle_calendar_confirmation", u)>>]_vars

\* The affirmative turn has ended: draft with the proposal stored, event
\* confirmation pending.
C7_Witness ==
    \E i \in DOMAIN threads :
       /\ threads[i].handler = "handle_calendar_after_approval"
       /\ threads[i].pc = "done" /\ threads[i].res = "advance"
       /\ threads[i].user \in DOMAIN user_states
       /\ user_states[threads[i].user].calendar_agent_response = threads[i].msg
       /\ HasHandler(next_step[threads[i].user], "handle_calendar_confirmation")

\* The texts of the model that name the address or the location.
AddressComplaints == {"n wrong address"}

C11_ModificationDetail ==
    [][\A i \in DOMAIN threads :
          (threads[i].pc = "handle_specific_modification"
              /\ threads'[i].pc = "done" /\ threads'[i].res # "error") =>
             LET u == threads[i].user
             IN /\ u \in DOMAIN user_states /\ u \in DOMAIN user_states'
                /\ user_states'[u] =
                      [user_states[u] EXCEPT !.calendar_agent_response = threads[i].msg]
                /\ next_step'[u] = <<Continuation("handle_calendar_confirmation", u)>>]_vars

\* The modification turn has ended with the new proposal stored and the
\* event confirmation pending.
C11_Witness ==
    \E i \in DOMAIN threads :
       /\ threads[i].handler = "handle_specific_modification"
       /\ threads[i].pc = "done" /\ threads[i].res = "advance"
       /\ threads[i].user \in DOMAIN user_states
       /\ user_states[threads[i].user].calendar_agent_response = threads[i].msg
       /\ HasHandler(next_step[threads[i].user], "handle_calendar_confirmation")

WorkflowErrors == {"error", "type_error"}

OrchestratorErrors == {"run_error", "item_not_found", "attribute_error"}

AllowListed == {"/Greetings"}

C16_ContactsResetsToTriage ==
    [][\A i \in DOMAIN threads :
          (threads[i].pc = "Runner.run" /\ threads'[i].pc = "done"
              /\ threads'[i].res = "text") =>
             active_agent_per_user'[threads[i].user] # contacts_agent]_vars

C18_UnknownItem ==
    [][\A i \in DOMAIN threads :
          (threads[i].pc = "Runner.run" /\ threads'[i].pc = "done"
              /\ threads'[i].out = "order_unknown_item") =>
             /\ threads'[i].res = "item_not_found"
             /\ ~threads'[i].quoted
             /\ threads'[i].reg = "none"
             /\ next_step'[threads[i].user] = next_step[threads[i].user]]_vars

\* A turn with an unknown item has ended in the error, nothing pending.
C18_Witness ==
    \E i \in DOMAIN threads :
       /\ threads[i].pc = "done" /\ threads[i].out = "order_unknown_item"
       /\ threads[i].res = "item_not_found" /\ ~threads[i].quoted
       /\ next_step[threads[i].user] = <<>>

\* The order's tax rate as section 4.1 reads it: the supplied value, the
\* default only when none is supplied.
SuppliedTaxRate(o) == IF o.tax_rate = None THEN DefaultTaxRate ELSE o.tax_rate

\* C19 (pricing formula): every quotation of an order whose items resolve
\* has subtotal = sum of unit price times quantity over its lines,
\* delivery_fee = 15 when delivery is true and 0 otherwise, and
\* final_total = (subtotal - discount) * (1 + tax_rate/100) + delivery_fee
\* for the order's tax rate.
C19_PricingFormula ==
    quotation.status = "ok" =>
       LET lines == quotation.quotation
           adjusted == quotation.subtotal - quotation.discount
       IN /\ quotation.subtotal =
                SumTotals([k \in DOMAIN lines |->
                   [TotalPrice |-> lines[k].UnitPrice * lines[k].Quantity]])
          /\ quotation.delivery_fee = (IF order.delivery = "True" THEN DeliveryFee ELSE 0)
          /\ (quotation.final_total - quotation.delivery_fee - adjusted) * 1000 =
                adjusted * SuppliedTaxRate(order)

\* C20 (P2, discount law): the quotation's discount amount is
\* subtotal * d / 100 for a percentage d, f for a flat amount f, and 0 for
\* an order without discount.
C20_DiscountLaw ==
    quotation.status = "ok" =>
       /\ order.discount.kind = "percent" =>
             quotation.discount * 100 = quotation.subtotal * order.discount.value
       /\ order.discount.kind = "flat" => quotation.discount = order.discount.value
       /\ order.discount.kind = "none" => quotation.discount = 0

\* A quotation with a 10% discount on a positive subtotal, and the amount
\* is a tenth of the subtotal.
C20_Witness ==
    /\ quotation.status = "ok"
    /\ order.discount = [kind |-> "percent", value |-> 10]
    /\ quotation.subtotal > 0
    /\ quotation.discount * 10 = quotation.subtotal

\* C21 (tax rate): the tax of a quotation is (subtotal - discount) * r/100
\* for every rate r the order supplies, 0 included, and 8.1% of it only
\* when the order supplies none.
C21_TaxRate ==
    quotation.status = "ok" =>
       quotation.tax * 1000 =
          (quotation.subtotal - quotation.discount)
             * (IF order.tax_rate = None THEN DefaultTaxRate ELSE order.tax_rate)

\* C22 (P3, item resolution): a line whose name is a menu key carries that
\* key's price and category; any other line carries those of a key whose
\* ratio to the name reaches the cutoff and is not exceeded by another
\* key's; and an order is rejected only if one of its names is no key and
\* no key reaches the cutoff for it.
C22_ItemResolution ==
    /\ quotation.status = "ok" =>
          \A k \in DOMAIN order.items :
             LET name == order.items[k].name
                 line == quotation.quotation[k]
                 Carries(key) == /\ line.UnitPrice = load_menu[key].Price
                                 /\ line.Category = load_menu[key].Category
             IN IF name \in DOMAIN load_menu
                THEN Carries(name)
                ELSE \E key \in DOMAIN load_menu :
                        /\ ReachesCutoff(key, name)
                        /\ \A other \in DOMAIN load_menu :
                              ~ScoresHigher(other, key, name)
                        /\ Carries(key)
    /\ quotation.status = "error" =>
          \E k \in DOMAIN order.items :
             /\ order.items[k].name \notin DOMAIN load_menu
             /\ \A key \in DOMAIN load_menu : ~ReachesCutoff(key, order.items[k].name)

\* A quotation with a line for "Hummus Plat": two keys reach the cutoff
\* and the line carries the price of the closer one.
C22_Witness ==
    /\ quotation.status = "ok"
    /\ \E k \in DOMAIN order.items :
          /\ order.items[k].name = "Hummus Plat"
          /\ ReachesCutoff("Hummus", "Hummus Plat")
          /\ ReachesCutoff("Hummus Plate", "Hummus Plat")
          /\ quotation.quotation[k].UnitPrice = load_menu["Hummus Plate"].Price

\* The item's name is no menu key and no key reaches the cutoff for it.
FailsToResolve(oi) ==
    /\ oi.name \notin DOMAIN load_menu
    /\ \A key \in DOMAIN load_menu : ~ReachesCutoff(key, oi.name)

\* C23 (no partial quotations): when some line of the order fails to
\* resolve, whatever its position, the call ends with the item-not-found
\* error for a name that does not resolve and returns no lines and no
\* totals.
C23_NoPartialQuotation ==
    (quotation.status # "none"
        /\ \E k \in DOMAIN order.items : FailsToResolve(order.items[k])) =>
       /\ quotation.status = "error"
       /\ DOMAIN quotation = {"status", "error"}
       /\ \E k \in DOMAIN order.items :
             FailsToResolve(order.items[k]) /\ quotation.error = order.items[k].name

\* The first line resolves, the second does not, and the call has raised.
C23_Witness ==
    /\ Len(order.items) = 2
    /\ ~FailsToResolve(order.items[1])
    /\ FailsToResolve(order.items[2])
    /\ quotation.status = "error"

C25_HistoryBound ==
    \A u \in Users : Len(Hist(u)) <= MAX_HISTORY

\* C26 (fresh conversation): the turn of a user without a session that
\* passes the authentication gate creates the session with Triage as the
\* active agent and a history that holds this turn's message only, and the
\* turn is given to Triage.
C26_FreshConversation ==
    [][\A i \in DOMAIN threads :
          (threads[i].pc = "process_message" /\ threads'[i].pc = "Runner.run"
              /\ threads[i].user \notin DOMAIN user_histories) =>
             LET u == threads[i].user
             IN /\ u \in DOMAIN active_agent_per_user'
                /\ active_agent_per_user'[u] = triage_agent
                /\ user_histories'[u] = <<UserEntry(threads[i].msg)>>
                /\ threads'[i].conv = <<UserEntry(threads[i].msg)>>
                /\ threads'[i].agent = triage_agent]_vars

\* The first turn of a user is at the call of Runner.run, started at
\* Triage on a history of that one message.
C26_Witness ==
    \E i \in DOMAIN threads :
       /\ threads[i].pc = "Runner.run" /\ threads[i].agent = triage_agent
       /\ \A j \in DOMAIN threads : threads[j].user = threads[i].user => j >= i
       /\ Hist(threads[i].user) = <<UserEntry(threads[i].msg)>>
       /\ active_agent_per_user[threads[i].user] = triage_agent

\* The run of turn i can end on the agent last.
CanEndOn(i, last) ==
    \E out \in {"order", "order_unknown_item", "text"} :
       ENABLED process_message_run_returns(i, last, out)

\* C27 (handoff topology): a turn started at Triage can end on each of the
\* four other agents, and a turn started at another agent can end on
\* Triage and on an agent that is neither Triage nor the one it started at.
C27_HandoffTopology ==
    \A i \in DOMAIN threads :
       threads[i].pc = "Runner.run" =>
          IF threads[i].agent = triage_agent
          THEN \A a \in Agents \ {triage_agent} : CanEndOn(i, a)
          ELSE /\ CanEndOn(i, triage_agent)
               /\ \E a \in Agents \ {triage_agent, threads[i].agent} : CanEndOn(i, a)

C32_NonNegativeTotal ==
    quotation.status = "ok" => quotation.final_total >= 0

\* The datetime arguments the last call of the calendar handler was given,
\* by the field of the event they are for.
Requested ==
    LET given == {f \in {"start", "end"} :
                     \/ f = "start" /\ calendar_call.start_datetime # NotGiven
                     \/ f = "end" /\ calendar_call.end_datetime # NotGiven}
    IN [f \in given |-> IF f = "start" THEN calendar_call.start_datetime
                        ELSE calendar_call.end_datetime]

\* The moment a committed "dateTime" denotes.
Committed(iso) ==
    [year |-> iso[1], month |-> iso[2], day |-> iso[3], hour |-> iso[4],
     utcoffset |-> iso[5]]

\* C33 (past-dated events are rejected): a call that creates or edits an
\* event and is given a start or end that lies before the current time
\* fails, and no start or end that is committed lies before the time of
\* the call.
C33_PastDatedRejected ==
    calendar_call.op # "none" =>
       /\ \A f \in DOMAIN Requested :
             (strptime(Requested[f]) # <<>>
                 /\ Earlier(strptime(Requested[f])[1], calendar_call.at)) =>
                calendar_call.result = "raised"
       /\ calendar_call.result = "ok" =>
             \A f \in DOMAIN calendar_call.body :
                ~Earlier(Committed(calendar_call.body[f][1]), calendar_call.at)

\* The state handlers that read the user's draft: the handlers of
\* AwaitingEventConfirmation, AwaitingAddressInput,
\* AwaitingModificationConfirmation and AwaitingModificationDetail.
DraftReaders ==
    {"handle_calendar_confirmation", "handle_calendar_response",
     "handle_calendar_modification", "handle_specific_modification"}

Specialists == {menu_agent, contacts_agent, calendar_agent}

\* The results of a turn that ended in the except branch of process_message.
TurnErrors == {"run_error", "item_not_found", "attribute_error"}

\* C35 (sticky non-Triage handler): while the Menu, Contacts or Calendar
\* agent is a user's active agent, a turn of the user that begins is given
\* to that agent, a turn given to it that completes without an exception
\* was answered by it and leaves it active, and the user's active agent
\* changes only in a step in which a turn of the user ends with an
\* exception.
C35_StickyHandler ==
    [][\A u \in Users :
          (u \in DOMAIN active_agent_per_user
              /\ active_agent_per_user[u] \in Specialists) =>
             LET sticky == active_agent_per_user[u]
             IN /\ \A i \in DOMAIN threads :
                      threads[i].user = u =>
                         /\ (threads[i].pc = "process_message"
                                /\ threads'[i].pc = "Runner.run") =>
                               threads'[i].agent = sticky
                         /\ (threads[i].pc = "Runner.run" /\ threads[i].agent = sticky
                                /\ threads'[i].pc = "done"
                                /\ threads'[i].res \notin TurnErrors) =>
                               /\ threads'[i].last = sticky
                               /\ active_agent_per_user'[u] = sticky
                /\ active_agent_per_user'[u] # sticky =>
                      \E i \in DOMAIN threads :
                         /\ threads[i].user = u
                         /\ threads[i].pc = "Runner.run"
                         /\ threads'[i].pc = "done"
                         /\ threads'[i].res \in TurnErrors]_vars

\* The requests that put a pair on the queue for the state token.
QueuedFor(state) ==
    {j \in DOMAIN callbacks : callbacks[j].state = state /\ callbacks[j].res = "queued"}

\* C36 (OAuth state is one-time use): for each state token at most one
\* request puts a pair on the callback queue, and the pair names the user
\* the token was issued to; a pair is put only by such a request; a request
\* that arrives with an error, without code or state, or with a state that
\* is not stored (unknown, consumed or expired) ends without putting
\* anything.
C36_OneTimeState ==
    [][/\ \A state \in 1..MaxMsgs :
             /\ Cardinality(QueuedFor(state)') <= 1
             /\ \A j \in QueuedFor(state)' :
                   /\ state \in DOMAIN threads'
                   /\ threads'[state].res = "gated"
                   /\ callbacks'[j].user_id = threads'[state].user
       /\ Len(oauth_log'.put) = Cardinality(UNION {QueuedFor(state)' : state \in 1..MaxMsgs})
       /\ \A j \in DOMAIN callbacks' \ DOMAIN callbacks :
             (\/ callbacks'[j].error # ""
              \/ callbacks'[j].code = ""
              \/ callbacks'[j].state = NoParam
              \/ callbacks'[j].state \notin DOMAIN oauth_states) =>
                /\ callbacks'[j].pc = "done"
                /\ callbacks'[j].res # "queued"
       /\ \A j \in DOMAIN callbacks :
             callbacks[j].pc = "done" => callbacks'[j] = callbacks[j]]_vars

\* Two requests carried the same state token and both found it stored; one
\* put its pair on the queue, the other ended in the KeyError of the del.
C36_Witness ==
    \E j, k \in DOMAIN callbacks :
       /\ j # k /\ callbacks[j].state = callbacks[k].state
       /\ callbacks[j].res = "queued"
       /\ callbacks[k].res = "exception"

RECURSIVE Pairs(_)
\* The pairs of a sequence of processed entries.
Pairs(entries) ==
    IF entries = <<>> THEN <<>>
    ELSE <<entries[1].pair>> \o Pairs(Tail(entries))

\* C37 (OAuth queue liveness): the pairs processed, the pair being
\* processed and the pairs waiting are, in this order, the pairs that were
\* put (each taken once, in FIFO order), and whenever pairs have been put
\* that are not yet processed, eventually all the pairs put are processed,
\* whatever the processing of the pairs before them came to.
C37_QueueLiveness ==
    /\ [](oauth_log.put = Pairs(oauth_log.processed) \o monitor.item \o oauth_callback_queue)
    /\ (Len(oauth_log.processed) < Len(oauth_log.put))
          ~> (Len(oauth_log.processed) = Len(oauth_log.put))

\* The processing of a pair raised, and the pair put after it has been
\* processed.
C37_Witness ==
    /\ Len(oauth_log.processed) >= 2
    /\ oauth_log.processed[1].outcome = "raised"
    /\ oauth_log.put[2] = oauth_log.processed[2].pair

\* The message with which a contact tool reports success.
SuccessMessage ==
    [tool \in {"add_contact", "edit_contact"} |->
        IF tool = "add_contact" THEN "Contact added successfully."
        ELSE "Contact edited successfully."]

\* C38 (contact tool results are truthful): a contact tool returns its
\* success message exactly when the store reported success, and the sheet
\* is written only then.
C38_TruthfulContactTools ==
    contact_call.tool # "none" =>
       /\ contact_call.message = SuccessMessage[contact_call.tool]
             <=> contact_call.result[1]
       /\ contact_call.written => contact_call.result[1]

\* C39 (date preservation): every start or end that the calendar handler
\* accepts is committed with the year, month, day and time of the datetime
\* that was requested.
C39_DatePreservation ==
    calendar_call.result = "ok" =>
       \A f \in DOMAIN Requested :
          SubSeq(calendar_call.body[f][1], 1, 4) = Requested[f]

====
